---------------------------- MODULE Spec2Model ----------------------------
(***************************************************************************)
(* Session-scoped credential manager and authentication gate of the        *)
(* Bluesky MCP server.                                                     *)
(*                                                                         *)
(* BlueskyAuthManager (src/bluesky_mcp_server/authentication.py) keeps one *)
(* dictionary, _clients, from session key to atproto Client.  The tools    *)
(* reach it through the explicit login/logout tools                        *)
(* (src/bluesky_mcp_server/server.py) and through the lazy require_auth    *)
(* decorator (src/server.py) that wraps every protected tool.              *)
(*                                                                         *)
(* The status check, resolve_handle (which needs no authentication), the   *)
(* strict gate of the package's tools and the limit and cursor parameters  *)
(* of the paginated tools are modelled as well.                            *)
(*                                                                         *)
(* A request of a session is a sequence of steps; requests of different    *)
(* sessions interleave at the remote calls (client.login and the proxied   *)
(* call of the wrapped tool), which are the only places where a handler    *)
(* waits.  A session has at most one request in flight.                    *)
(***************************************************************************)
EXTENDS Integers, Sequences, FiniteSets, TLC

\* Number of dispatcher sessions driven concurrently.
NumSessions == 2

Sessions == 1..NumSessions

\* The session whose consecutive requests are followed (sessions are
\* interchangeable: the manager treats every key alike).
Watched == CHOOSE s \in Sessions : \A u \in Sessions : s <= u

(***************************************************************************)
(* Values                                                                  *)
(***************************************************************************)

\* os.environ.get(name) of a variable that is not set: Python's None.
Unset == "<None>"

\* Python's None as the error half of (True, None).
PyNone == <<>>

\* The two environment variables authenticate_from_env requires.  The
\* service URL only selects the remote host and is left out.
EnvIdentifierValues == {Unset, "", "alice.test"}
EnvPasswordValues == {Unset, "", "alice-pw", "stale-pw"}

\* The configurations of the process environment: each variable unset, empty
\* and set, with a password the remote accepts and one it rejects.
EnvConfigs ==
    { e \in [identifier : EnvIdentifierValues, password : EnvPasswordValues] :
        \/ e.identifier = "alice.test"
        \/ e.identifier = Unset /\ e.password = Unset
        \/ e.identifier = "" /\ e.password = "alice-pw" }

\* Arguments a caller gives the explicit login tool.
LoginHandles == {"bob.test"}
LoginPasswords == {"bob-pw", "stale-pw"}

\* The accounts the remote service knows: createSession accepts these pairs.
Accounts == {<<"alice.test", "alice-pw">>, <<"bob.test", "bob-pw">>}

\* _clients.get(key) of an absent key.
NoClient == [id |-> 0, owner |-> 0, ident |-> "", logged |-> FALSE]

\* Client(service_url): a new object, not logged in.  owner is the session
\* whose request constructed it; (owner, id) is the object's identity, which
\* like a Python object's differs from that of every object alive with it.
\* The only other client a session's request can reach is its registry entry.
FreshId(c) == IF c.id = 1 THEN 2 ELSE 1

NewClient(n, s) == [id |-> n, owner |-> s, ident |-> "", logged |-> FALSE]

\* The client after client.login(handle, password) returned a profile.
LoggedIn(c, h) == [c EXCEPT !.ident = h, !.logged = TRUE]

NoResult == [status |-> "none", message |-> <<>>]
NoRet == [success |-> FALSE, error |-> <<"<no call>">>]
NoCred == <<"", "">>
NoPrev ==
    [tool |-> "none", status |-> "none", logins |-> 0, refused |-> FALSE,
     ident |-> "none"]

\* The limits of a page: max(1, min(100, limit)).
MinLimit == 1
MaxLimit == 100

\* How far below 1 and above 100 the integer limits a caller passes reach.
LimitSpan == 3

\* A limit argument: the tools declare limit as Union[int, str], so the value
\* that reaches the tool is a Python int or a Python str.
IntLimits == ((MinLimit - LimitSpan)..(MaxLimit + LimitSpan)) \cup {500}
StrLimits == {"25", "0", "abc"}
LimitArgs ==
    [kind : {"int"}, n : IntLimits, text : {""}]
        \cup [kind : {"str"}, n : {0}, text : StrLimits]

\* A cursor argument: None (the default), the empty string, a cursor a
\* previous page returned.
CursorArgs == {Unset, "", "cursor-1", "cursor-2"}

\* URLs given to convert_url_to_uri, cut at the slashes: scheme, host and the
\* segments of the path ("" is an empty segment, as in "//").
MaxSegs == 4

UrlSchemes == {"http", "https", "ftp"}
UrlHosts == {"bsky.app", "www.bsky.app", "example.com"}
UrlSegments == {"profile", "post", "alice.test", "3kabc", ""}

RECURSIVE SegSeqs(_)
SegSeqs(n) ==
    IF n = 0 THEN {<<>>}
    ELSE LET shorter == SegSeqs(n - 1)
         IN  shorter \cup { Append(q, g) : q \in {r \in shorter : Len(r) = n - 1},
                                          g \in UrlSegments }

Urls == [scheme : UrlSchemes, host : UrlHosts, segs : SegSeqs(MaxSegs)]

NoUrlCall == [url |-> [scheme |-> "", host |-> "", segs |-> <<>>],
              consulted |-> FALSE]

\* The uri argument of delete_post: an at:// URI of a post, whose authority
\* is a DID or a handle, or a string AtUri.from_str does not accept.
PostUriHosts == {"did:plc:alice.test", "did:plc:bob.test", "alice.test"}

MalformedUri == [host |-> "", rkey |-> ""]

PostUris == [host : PostUriHosts, rkey : {"3kabc"}] \cup {MalformedUri}

\* post_uri.did is an attribute of the library's AtUri object, which is not
\* part of this repository: reading it yields the URI's authority, or raises
\* AttributeError where the class has no such attribute.
AtUriDidOutcomes == {"value", "AttributeError"}

NoDeleteCall ==
    [called |-> FALSE, uri |-> MalformedUri, me |-> "", remote |-> FALSE]

\* No remote call was made: there are no params.
NoParams == [called |-> FALSE]

NoLimit == [kind |-> "int", n |-> 50, text |-> ""]

VARIABLES
    clients,    \* BlueskyAuthManager._clients: session key -> Client (NoClient: absent)
    env,        \* os.environ restricted to the two required variables
    pc,         \* per session: position of the request in flight
    tool,       \* per session: the tool of the request in flight
    cred,       \* per session: (handle, password) given to authenticate
    local,      \* per session: authenticate's local variable client
    entry,      \* per session: the registry entry when the request started
    loginLog,   \* per session: outcomes of the remote login calls of the request
    envReads,   \* per session: reads of the environment made by the request
    runs,       \* per session: invocations of the wrapped tool by the request
    opLog,      \* per session: outcomes of the proxied calls of the request
    used,       \* per session: the client resolve_handle made its call on
    ret,        \* per session: what the manager method returned to the tool
    result,     \* per session: the envelope the tool returned
    prev,       \* summary of the previous request of the watched session
    alive,      \* per session: the dispatcher session has not ended
    urlCall,    \* the URL of the convert_url_to_uri call in flight, and
    deleteCall, \* per session: what delete_post did in the request in flight
                \* whether the call asked the manager for the session's client
    ppc,        \* position of the call of a paginated tool
    limitArg,   \* its limit argument
    cursorArg,  \* its cursor argument
    params,     \* the params the remote call received
    pageResult  \* the envelope it returned

authVars == <<clients, env, pc, tool, cred, local, entry, loginLog,
              envReads, runs, opLog, used, ret, result, prev, alive,
              urlCall, deleteCall>>

pageVars == <<ppc, limitArg, cursorArg, params, pageResult>>

vars == <<authVars, pageVars>>

(***************************************************************************)
(* BlueskyAuthManager                                                      *)
(***************************************************************************)

\* get_client: self._clients.get(session_id)
GetClient(reg, s) == reg[s]

\* is_authenticated: self.get_client(ctx) is not None
IsAuthenticated_Never(reg, s) == FALSE

IsAuthenticated(reg, s) == GetClient(reg, s) # NoClient

\* Python truthiness of an os.environ.get result: None and "" are falsy.
Truthy(v) == v # Unset /\ v # ""

\* authenticate_from_env: if not handle or not password
EnvCredsMissing_And(e) == ~Truthy(e.identifier) /\ ~Truthy(e.password)

EnvCredsMissing(e) == ~Truthy(e.identifier) \/ ~Truthy(e.password)

MsgEnvNotSet ==
    <<"BLUESKY_IDENTIFIER and/or BLUESKY_APP_PASSWORD environment variables not set">>

\* What client.login(handle, password) can do: return the profile when the
\* remote knows the account, raise the remote's rejection when it does not,
\* raise a transport error in either case.
LoginOutcomes(h, p) ==
    (IF <<h, p>> \in Accounts THEN {"ok"} ELSE {"rejected"}) \cup {"transport"}

\* str(e) of the exception client.login raised.
UpstreamMessage(outcome) ==
    IF outcome = "rejected" THEN "Invalid identifier or password"
    ELSE "Connection error"

\* authenticate, lines 64-68: (True, None) or (False, "Authentication failed: ...")
AuthReturn_Raw(outcome) ==
    IF outcome = "ok" THEN [success |-> TRUE, error |-> PyNone]
    ELSE [success |-> FALSE, error |-> <<UpstreamMessage(outcome)>>]

AuthReturn(outcome) ==
    IF outcome = "ok" THEN [success |-> TRUE, error |-> PyNone]
    ELSE [success |-> FALSE,
          error |-> <<"Authentication failed: ", UpstreamMessage(outcome)>>]

\* authenticate, line 61: self._clients[session_id] = client
StoreClient_OneKey(reg, s, c) == [k \in Sessions |-> c]

StoreClient_KeepOld(reg, s, c) ==
    IF reg[s] = NoClient THEN [reg EXCEPT ![s] = c] ELSE reg

StoreClient(reg, s, c) == [reg EXCEPT ![s] = c]

\* authenticate, lines 57-61: the store is reached only when login returned.
RegistryAfterLogin_StoreFirst(reg, s, c, h, outcome) ==
    IF outcome = "ok" THEN StoreClient(reg, s, LoggedIn(c, h))
    ELSE StoreClient(reg, s, c)

RegistryAfterLogin(reg, s, c, h, outcome) ==
    IF outcome = "ok" THEN StoreClient(reg, s, LoggedIn(c, h)) ELSE reg

\* logout: if session_id in self._clients
LogoutReturn(reg, s) == IsAuthenticated(reg, s)

\* logout: del self._clients[session_id]
RegistryAfterLogout_Keep(reg, s) == reg

RegistryAfterLogout(reg, s) ==
    IF IsAuthenticated(reg, s) THEN [reg EXCEPT ![s] = NoClient] ELSE reg

(***************************************************************************)
(* Tool envelopes                                                          *)
(***************************************************************************)

\* login tool: {"status": "success", ...} or {"status": "error", "message": error}
LoginEnvelope(r, h) ==
    IF r.success THEN [status |-> "success", message |-> <<"Logged in as ", h>>]
    ELSE [status |-> "error", message |-> r.error]

\* logout tool
LogoutEnvelope(success) ==
    IF success THEN [status |-> "success", message |-> <<"Logged out successfully">>]
    ELSE [status |-> "error", message |-> <<"Not logged in">>]

\* The message string an envelope carries: the pieces of the f-string put
\* together.
RECURSIVE Text(_)
Text(m) == IF m = <<>> THEN "" ELSE Head(m) \o Text(Tail(m))

\* require_auth.wrapper: f"Authentication required. {error}"
GateRefusal_NoDetail(error) ==
    [status |-> "error", message |-> <<"Authentication required">>]

GateRefusal_Unauthorized(error) ==
    [status |-> "unauthorized", message |-> <<"Authentication required. ">> \o error]

GateRefusal(error) ==
    [status |-> "error", message |-> <<"Authentication required. ">> \o error]

\* require_auth.wrapper: if not success: return the refusal
GateProceeds_Always(r) == TRUE

GateProceeds_Inverted(r) == ~r.success

GateProceeds(r) == r.success

\* A wrapped tool (get_follows): the proxied call returned or raised.
OpOutcomes == {"ok", "upstream"}

OpEnvelope(c, outcome) ==
    IF c # NoClient /\ outcome = "ok"
    THEN [status |-> "success", message |-> <<"follows">>]
    ELSE [status |-> "error", message |-> <<"Failed to get follows: ", outcome>>]

\* A wrapped tool's except branch builds the error envelope and touches
\* nothing of the manager: the registry after the proxied call is the
\* registry before it.
RegistryAfterOp_DropOnError(reg, s, outcome) ==
    IF outcome = "ok" THEN reg ELSE [reg EXCEPT ![s] = NoClient]

RegistryAfterOp(reg, s, outcome) == reg

\* Nothing of the server runs when a dispatcher session ends: app_lifespan
\* is the lifespan of the server, its cleanup is `pass`, and the manager has
\* no method that takes a session out other than logout.
RegistryAfterSessionEnd(reg, s) == reg

\* The statements that can fail and sit inside a try block whose except
\* branch builds the error envelope: client.login in authenticate, the
\* proxied call of a wrapped tool, client.resolve_handle in resolve_handle.
\* The registry lookups and check_auth_status's reads of client.me are
\* outside every try block.
InTry_OnlyLogin(site) == site = "client.login"

InTry(site) == site \in {"client.login", "proxied call", "client.resolve_handle"}

\* check_auth_status: the status is "authenticated" or "not_authenticated";
\* for a session without a handle the message tells whether the environment
\* variables are set.
StatusEnvelope(reg, s, e) ==
    IF IsAuthenticated(reg, s)
    THEN [status |-> "authenticated", message |-> <<GetClient(reg, s).ident>>]
    ELSE IF ~EnvCredsMissing(e)
         THEN [status |-> "not_authenticated",
               message |-> <<"Environment variables are set but authentication hasn't happened yet.">>]
         ELSE [status |-> "not_authenticated",
               message |-> <<"Required environment variables BLUESKY_IDENTIFIER and/or BLUESKY_APP_PASSWORD are not set.">>]

\* check_auth_status has no statement that writes the registry or calls
\* authenticate: the registry after it is the registry before it.
RegistryAfterStatus_LazyLogin(reg, s, e) ==
    IF ~IsAuthenticated(reg, s) /\ ~EnvCredsMissing(e)
    THEN StoreClient(reg, s, LoggedIn(NewClient(FreshId(reg[s]), s), e.identifier))
    ELSE reg

RegistryAfterStatus(reg, s, e) == reg

\* resolve_handle: {"status": "success", ...} or "Failed to resolve handle: ..."
ResolveEnvelope(outcome) ==
    IF outcome = "ok" THEN [status |-> "success", message |-> <<"did">>]
    ELSE [status |-> "error", message |-> <<"Failed to resolve handle: ", outcome>>]

\* re.match of the two patterns of convert_url_to_uri:
\*   https?://(?:www\.)?bsky\.app/profile/([^/]+)/post/([^/]+)
\*   https?://(?:www\.)?bsky\.app/profile/([^/]+)
\* re.match anchors at the start only, so more segments may follow.
OriginMatch(u) == u.scheme \in {"http", "https"} /\ u.host \in {"bsky.app", "www.bsky.app"}

ProfileMatch(u) ==
    /\ OriginMatch(u)
    /\ Len(u.segs) >= 2
    /\ u.segs[1] = "profile" /\ u.segs[2] # ""

PostMatch(u) ==
    /\ ProfileMatch(u)
    /\ Len(u.segs) >= 4
    /\ u.segs[3] = "post" /\ u.segs[4] # ""

\* resolved.did of client.resolve_handle(handle)
DidOf(h) == "did:plc:" \o h

\* convert_url_to_uri: the post pattern first, then the profile pattern.
ConvertKind_ProfileFirst(u) ==
    IF ProfileMatch(u) THEN "profile" ELSE IF PostMatch(u) THEN "post" ELSE "none"

ConvertKind(u) ==
    IF PostMatch(u) THEN "post" ELSE IF ProfileMatch(u) THEN "profile" ELSE "none"

\* The envelope of convert_url_to_uri; the uri is kept in the message field.
ConvertEnvelope(u, outcome) ==
    IF ConvertKind(u) = "none"
    THEN [status |-> "error", message |-> <<"Unsupported URL format">>]
    ELSE IF outcome # "ok"
    THEN [status |-> "error",
          message |-> <<"Failed to convert URL to URI: ", outcome>>]
    ELSE IF ConvertKind(u) = "post"
    THEN [status |-> "success",
          message |-> <<"at://", DidOf(u.segs[2]), "/app.bsky.feed.post/", u.segs[4]>>]
    ELSE [status |-> "success", message |-> <<DidOf(u.segs[2])>>]

\* The strict gate (tools.py require_auth and the inline check of the
\* package's tools): no fallback to the environment.
\* delete_post, lines 1030-1044: how far the body gets.
DeleteKind_NoCheck(u, attr, c) ==
    IF u = MalformedUri THEN "parse error"
    ELSE IF c = NoClient \/ attr = "AttributeError" THEN "attribute error"
    ELSE "delete"

DeleteKind(u, attr, c) ==
    IF u = MalformedUri THEN "parse error"
    ELSE IF c = NoClient \/ attr = "AttributeError" THEN "attribute error"
    ELSE IF u.host # DidOf(c.ident) THEN "not own"
    ELSE "delete"

\* delete_post, lines 1033-1049: the envelope returned.
DeleteEnvelope(kind, outcome) ==
    IF kind = "not own"
    THEN [status |-> "error", message |-> <<"You can only delete your own posts">>]
    ELSE IF kind = "delete" /\ outcome = "ok"
    THEN [status |-> "success", message |-> <<"Post deleted successfully">>]
    ELSE [status |-> "error",
          message |-> <<"Failed to delete post: ",
                        IF kind = "delete" THEN outcome ELSE kind>>]

StrictRefusal_NotLoggedIn == [status |-> "error", message |-> <<"Not logged in">>]

StrictRefusal == [status |-> "error", message |-> <<"Authentication required">>]

(***************************************************************************)
(* Parameters of a paginated tool                                          *)
(***************************************************************************)

\* Python's max and min of two integers.
Max2(a, b) == IF a >= b THEN a ELSE b
Min2(a, b) == IF a <= b THEN a ELSE b

\* max(1, min(100, limit)) of an int
Clamp_NoFloor(x) == Min2(MaxLimit, x)

Clamp(x) == Max2(MinLimit, Min2(MaxLimit, x))

\* min(100, limit) compares limit with 100: for a str Python raises
\* TypeError ('<' not supported between instances of 'str' and 'int').
LimitRaises(l) == l.kind # "int"

\* if cursor:
CursorGiven_NotNone(c) == c # Unset

CursorGiven(c) == Truthy(c)

\* params = {..., "limit": max(1, min(100, limit))}; the cursor key is added
\* under the if.  The keys that do not depend on limit and cursor (actor,
\* q, ...) are left out.
BuildParams(l, c) ==
    IF CursorGiven(c)
    THEN [called |-> TRUE, limit |-> Clamp(l.n), cursor |-> c]
    ELSE [called |-> TRUE, limit |-> Clamp(l.n)]

\* The envelope of the paginated tool: the except branch formats whatever was
\* raised inside the try block, the TypeError of the limit included.
PageEnvelope(outcome) ==
    IF outcome = "ok" THEN [status |-> "success", message |-> <<"follows">>]
    ELSE [status |-> "error", message |-> <<"Failed to get follows: ", outcome>>]

(***************************************************************************)
(* The state after construction: app_lifespan made an empty manager.       *)
(***************************************************************************)
AuthInit ==
    /\ clients = [s \in Sessions |-> NoClient]
    /\ env \in EnvConfigs
    /\ pc = [s \in Sessions |-> "idle"]
    /\ tool = [s \in Sessions |-> "none"]
    /\ cred = [s \in Sessions |-> NoCred]
    /\ local = [s \in Sessions |-> NoClient]
    /\ entry = [s \in Sessions |-> NoClient]
    /\ loginLog = [s \in Sessions |-> <<>>]
    /\ envReads = [s \in Sessions |-> 0]
    /\ runs = [s \in Sessions |-> 0]
    /\ opLog = [s \in Sessions |-> <<>>]
    /\ used = [s \in Sessions |-> NoClient]
    /\ ret = [s \in Sessions |-> NoRet]
    /\ result = [s \in Sessions |-> NoResult]
    /\ prev = NoPrev
    /\ alive = [s \in Sessions |-> TRUE]
    /\ urlCall = NoUrlCall
    /\ deleteCall = [s \in Sessions |-> NoDeleteCall]

Init ==
    /\ AuthInit
    /\ ppc = "none"
    /\ limitArg = NoLimit
    /\ cursorArg = Unset
    /\ params = NoParams
    /\ pageResult = NoResult

(***************************************************************************)
(* Steps of a request                                                      *)
(***************************************************************************)

\* authenticate, line 56: client = Client(service_url); the request then
\* waits in client.login.
AuthBegin(s, h, p) ==
    /\ local' = [local EXCEPT ![s] = NewClient(FreshId(clients[s]), s)]
    /\ cred' = [cred EXCEPT ![s] = <<h, p>>]
    /\ pc' = [pc EXCEPT ![s] = "auth"]

\* The explicit login tool calls authenticate with the caller's credentials.
LoginTool(s) ==
    /\ pc[s] = "idle"
    /\ tool' = [tool EXCEPT ![s] = "login"]
    /\ entry' = [entry EXCEPT ![s] = clients[s]]
    /\ \E h \in LoginHandles, p \in LoginPasswords : AuthBegin(s, h, p)
    /\ UNCHANGED <<clients, env, loginLog, envReads, runs, opLog, used, ret,
                   result, prev>>
    /\ UNCHANGED <<alive, urlCall, deleteCall, pageVars>>

\* A protected tool called through the lazy gate: the wrapper up to the
\* point where it either runs the tool, refuses, or waits in client.login.
GateCall(s) ==
    /\ pc[s] = "idle"
    /\ tool' = [tool EXCEPT ![s] = "gate"]
    /\ entry' = [entry EXCEPT ![s] = clients[s]]
    /\ IF IsAuthenticated(clients, s)
       THEN /\ pc' = [pc EXCEPT ![s] = "op"]
            /\ UNCHANGED <<local, cred, envReads, ret, result>>
       ELSE /\ envReads' = [envReads EXCEPT ![s] = @ + 1]
            /\ IF EnvCredsMissing(env)
               THEN /\ ret' = [ret EXCEPT ![s] =
                                  [success |-> FALSE, error |-> MsgEnvNotSet]]
                    /\ result' = [result EXCEPT ![s] = GateRefusal(MsgEnvNotSet)]
                    /\ pc' = [pc EXCEPT ![s] = "done"]
                    /\ UNCHANGED <<local, cred>>
               ELSE /\ AuthBegin(s, env.identifier, env.password)
                    /\ UNCHANGED <<ret, result>>
    /\ UNCHANGED <<clients, env, loginLog, runs, opLog, used, prev>>
    /\ UNCHANGED <<alive, urlCall, deleteCall, pageVars>>

\* client.login returns or raises; authenticate stores the client and
\* returns, and the caller (login tool or gate) goes on with the result.
\* ctx.info and ctx.error only build a log notification and change nothing
\* of the manager.
ClientLogin(s) ==
    /\ pc[s] = "auth"
    /\ \E o \in LoginOutcomes(cred[s][1], cred[s][2]) :
         LET r == AuthReturn(o) IN
         /\ loginLog' = [loginLog EXCEPT ![s] = Append(@, o)]
         /\ IF o # "ok" /\ ~InTry("client.login")
            THEN /\ pc' = [pc EXCEPT ![s] = "raised"]
                 /\ UNCHANGED <<clients, local, ret, result>>
            ELSE /\ clients' = RegistryAfterLogin(clients, s, local[s], cred[s][1], o)
                 /\ local' = [local EXCEPT ![s] =
                                 IF o = "ok" THEN LoggedIn(@, cred[s][1]) ELSE @]
                 /\ ret' = [ret EXCEPT ![s] = r]
                 /\ IF tool[s] = "login"
                    THEN /\ result' = [result EXCEPT ![s] =
                                           LoginEnvelope(r, cred[s][1])]
                         /\ pc' = [pc EXCEPT ![s] = "done"]
                    ELSE IF GateProceeds(r)
                         THEN /\ pc' = [pc EXCEPT ![s] = "op"]
                              /\ UNCHANGED result
                         ELSE /\ result' = [result EXCEPT ![s] =
                                                GateRefusal(r.error)]
                              /\ pc' = [pc EXCEPT ![s] = "done"]
    /\ UNCHANGED <<env, tool, cred, entry, envReads, runs, opLog, used, prev>>
    /\ UNCHANGED <<alive, urlCall, deleteCall, pageVars>>

\* authenticate with a context whose info() raises (the context is the caller's
\* object: ctx.info(...) at line 63 is inside the try, after the store at line
\* 61).  client.login returned, the client was stored, the notification raised
\* and the except branch returned (False, "Authentication failed: ...").
NotifyMessage == "Notification failed"

ClientLoginNotifyFails(s) ==
    /\ pc[s] = "auth"
    /\ "ok" \in LoginOutcomes(cred[s][1], cred[s][2])
    /\ LET r == [success |-> FALSE,
                 error |-> <<"Authentication failed: ", NotifyMessage>>] IN
         /\ loginLog' = [loginLog EXCEPT ![s] = Append(@, "ok")]
         /\ clients' = StoreClient(clients, s, LoggedIn(local[s], cred[s][1]))
         /\ local' = [local EXCEPT ![s] = LoggedIn(@, cred[s][1])]
         /\ ret' = [ret EXCEPT ![s] = r]
         /\ IF tool[s] = "login"
            THEN /\ result' = [result EXCEPT ![s] = LoginEnvelope(r, cred[s][1])]
                 /\ pc' = [pc EXCEPT ![s] = "done"]
            ELSE IF GateProceeds(r)
                 THEN /\ pc' = [pc EXCEPT ![s] = "op"]
                      /\ UNCHANGED result
                 ELSE /\ result' = [result EXCEPT ![s] = GateRefusal(r.error)]
                      /\ pc' = [pc EXCEPT ![s] = "done"]
    /\ UNCHANGED <<env, tool, cred, entry, envReads, runs, opLog, used, prev>>
    /\ UNCHANGED <<alive, urlCall, deleteCall, pageVars>>

\* The wrapped tool runs: it looks its client up and makes the proxied call.
RunOp(s) ==
    /\ pc[s] = "op"
    /\ \E o \in OpOutcomes :
         /\ opLog' = [opLog EXCEPT ![s] = Append(@, o)]
         /\ IF o # "ok" /\ ~InTry("proxied call")
            THEN /\ pc' = [pc EXCEPT ![s] = "raised"]
                 /\ UNCHANGED <<clients, result>>
            ELSE /\ result' = [result EXCEPT ![s] =
                                   OpEnvelope(GetClient(clients, s), o)]
                 /\ clients' = RegistryAfterOp(clients, s, o)
                 /\ pc' = [pc EXCEPT ![s] = "done"]
    /\ runs' = [runs EXCEPT ![s] = @ + 1]
    /\ UNCHANGED <<env, tool, cred, local, entry, loginLog, envReads, used,
                   ret, prev>>
    /\ UNCHANGED <<alive, urlCall, deleteCall, pageVars>>

\* The wrapped tool is delete_post: it parses the URI, compares its DID with
\* the DID of the session's client and calls client.delete_post(uri) when they
\* are equal.  The whole body is inside the tool's try.
DeletePost(s) ==
    /\ pc[s] = "op"
    /\ tool[s] = "gate"
    /\ \E u \in PostUris, attr \in AtUriDidOutcomes, o \in OpOutcomes :
         LET c == GetClient(clients, s)
             kind == DeleteKind(u, attr, c)
         IN  /\ kind # "delete" => o = "ok"
             /\ deleteCall' = [deleteCall EXCEPT ![s] =
                                  [called |-> TRUE, uri |-> u,
                                   me |-> IF c = NoClient THEN "" ELSE DidOf(c.ident),
                                   remote |-> kind = "delete"]]
             /\ opLog' = [opLog EXCEPT ![s] =
                             IF kind = "delete" THEN Append(@, o) ELSE @]
             /\ result' = [result EXCEPT ![s] = DeleteEnvelope(kind, o)]
    /\ used' = [used EXCEPT ![s] = GetClient(clients, s)]
    /\ runs' = [runs EXCEPT ![s] = @ + 1]
    /\ pc' = [pc EXCEPT ![s] = "done"]
    /\ UNCHANGED <<clients, env, tool, cred, local, entry, loginLog, envReads,
                   ret, prev>>
    /\ UNCHANGED <<alive, urlCall, pageVars>>

\* The logout tool.
LogoutTool(s) ==
    /\ pc[s] = "idle"
    /\ tool' = [tool EXCEPT ![s] = "logout"]
    /\ entry' = [entry EXCEPT ![s] = clients[s]]
    /\ ret' = [ret EXCEPT ![s] =
                  [success |-> LogoutReturn(clients, s), error |-> PyNone]]
    /\ clients' = RegistryAfterLogout(clients, s)
    /\ result' = [result EXCEPT ![s] = LogoutEnvelope(LogoutReturn(clients, s))]
    /\ pc' = [pc EXCEPT ![s] = "done"]
    /\ UNCHANGED <<env, cred, local, loginLog, envReads, runs, opLog, used, prev>>
    /\ UNCHANGED <<alive, urlCall, deleteCall, pageVars>>

\* check_auth_status: one lookup, then either the handle's profile fields or
\* a read of the environment.  client.me of a client that never logged in is
\* None, and reading its handle raises outside every try block.
StatusTool(s) ==
    /\ pc[s] = "idle"
    /\ tool' = [tool EXCEPT ![s] = "status"]
    /\ entry' = [entry EXCEPT ![s] = clients[s]]
    /\ clients' = RegistryAfterStatus(clients, s, env)
    /\ IF IsAuthenticated(clients, s)
       THEN /\ UNCHANGED envReads
            /\ IF GetClient(clients, s).logged
               THEN /\ result' = [result EXCEPT ![s] = StatusEnvelope(clients, s, env)]
                    /\ pc' = [pc EXCEPT ![s] = "done"]
               ELSE /\ pc' = [pc EXCEPT ![s] = "raised"]
                    /\ UNCHANGED result
       ELSE /\ envReads' = [envReads EXCEPT ![s] = @ + 1]
            /\ result' = [result EXCEPT ![s] = StatusEnvelope(clients, s, env)]
            /\ pc' = [pc EXCEPT ![s] = "done"]
    /\ UNCHANGED <<env, cred, local, loginLog, runs, opLog, used, ret, prev>>
    /\ UNCHANGED <<alive, urlCall, deleteCall, pageVars>>

\* resolve_handle: the session's handle when it has one, else a temporary
\* Client() that is never stored; then the remote resolution.
ResolveTool(s) ==
    /\ pc[s] = "idle"
    /\ tool' = [tool EXCEPT ![s] = "resolve"]
    /\ entry' = [entry EXCEPT ![s] = clients[s]]
    /\ used' = [used EXCEPT ![s] =
                   IF IsAuthenticated(clients, s) THEN GetClient(clients, s)
                   ELSE NewClient(FreshId(clients[s]), s)]
    /\ \E o \in OpOutcomes :
         /\ opLog' = [opLog EXCEPT ![s] = Append(@, o)]
         /\ IF o # "ok" /\ ~InTry("client.resolve_handle")
            THEN /\ pc' = [pc EXCEPT ![s] = "raised"]
                 /\ UNCHANGED result
            ELSE /\ result' = [result EXCEPT ![s] = ResolveEnvelope(o)]
                 /\ pc' = [pc EXCEPT ![s] = "done"]
    /\ UNCHANGED <<clients, env, cred, local, loginLog, envReads, runs, ret, prev>>
    /\ UNCHANGED <<alive, urlCall, deleteCall, pageVars>>

\* convert_url_to_uri: a URL neither pattern matches is answered at once;
\* otherwise the session's handle or a temporary Client() resolves the handle
\* of the URL.  The whole body is inside the try block.
ConvertTool(s) ==
    /\ pc[s] = "idle"
    /\ urlCall = NoUrlCall
    /\ tool' = [tool EXCEPT ![s] = "convert"]
    /\ entry' = [entry EXCEPT ![s] = clients[s]]
    /\ \E u \in Urls :
         IF ConvertKind(u) = "none"
         THEN /\ urlCall' = [url |-> u, consulted |-> FALSE]
              /\ result' = [result EXCEPT ![s] = ConvertEnvelope(u, "ok")]
              /\ pc' = [pc EXCEPT ![s] = "done"]
              /\ UNCHANGED <<used, opLog>>
         ELSE /\ urlCall' = [url |-> u, consulted |-> TRUE]
              /\ used' = [used EXCEPT ![s] =
                             IF IsAuthenticated(clients, s) THEN GetClient(clients, s)
                             ELSE NewClient(FreshId(clients[s]), s)]
              /\ \E o \in OpOutcomes :
                   /\ opLog' = [opLog EXCEPT ![s] = Append(@, o)]
                   /\ IF o # "ok" /\ ~InTry("client.resolve_handle")
                      THEN /\ pc' = [pc EXCEPT ![s] = "raised"]
                           /\ UNCHANGED result
                      ELSE /\ result' = [result EXCEPT ![s] = ConvertEnvelope(u, o)]
                           /\ pc' = [pc EXCEPT ![s] = "done"]
    /\ UNCHANGED <<clients, env, cred, local, loginLog, envReads, runs, ret, prev>>
    /\ UNCHANGED <<alive, deleteCall, pageVars>>

\* A protected tool behind the strict gate: refused when the session has no
\* handle, run otherwise.
StrictGateCall(s) ==
    /\ pc[s] = "idle"
    /\ tool' = [tool EXCEPT ![s] = "strict"]
    /\ entry' = [entry EXCEPT ![s] = clients[s]]
    /\ IF IsAuthenticated(clients, s)
       THEN /\ pc' = [pc EXCEPT ![s] = "op"]
            /\ UNCHANGED result
       ELSE /\ result' = [result EXCEPT ![s] = StrictRefusal]
            /\ pc' = [pc EXCEPT ![s] = "done"]
    /\ UNCHANGED <<clients, env, cred, local, loginLog, envReads, runs, opLog,
                   used, ret, prev>>
    /\ UNCHANGED <<alive, urlCall, deleteCall, pageVars>>

\* The envelope (or the exception) went back to the dispatcher; the session
\* may send its next request.  The request's locals are gone.
Forget(s) ==
    /\ pc[s] \in {"done", "raised"}
    /\ pc' = [pc EXCEPT ![s] = "idle"]
    /\ tool' = [tool EXCEPT ![s] = "none"]
    /\ cred' = [cred EXCEPT ![s] = NoCred]
    /\ local' = [local EXCEPT ![s] = NoClient]
    /\ entry' = [entry EXCEPT ![s] = NoClient]
    /\ loginLog' = [loginLog EXCEPT ![s] = <<>>]
    /\ envReads' = [envReads EXCEPT ![s] = 0]
    /\ runs' = [runs EXCEPT ![s] = 0]
    /\ opLog' = [opLog EXCEPT ![s] = <<>>]
    /\ used' = [used EXCEPT ![s] = NoClient]
    /\ ret' = [ret EXCEPT ![s] = NoRet]
    /\ result' = [result EXCEPT ![s] = NoResult]
    /\ UNCHANGED <<clients, env>>
    /\ urlCall' = (IF tool[s] = "convert" THEN NoUrlCall ELSE urlCall)
    /\ deleteCall' = [deleteCall EXCEPT ![s] = NoDeleteCall]
    /\ UNCHANGED <<alive, pageVars>>

Return(s) == Forget(s) /\ UNCHANGED prev

\* What a finished request was: its tool, the envelope's status, the remote
\* login calls it made and whether the gate refused it.
Summary(s) ==
    [tool |-> tool[s], status |-> result[s].status, logins |-> Len(loginLog[s]),
     refused |-> tool[s] = "gate" /\ runs[s] = 0,
     ident |-> IF entry[s] = NoClient THEN "none" ELSE entry[s].ident]

\* The requests a following request is compared with: an explicit login that
\* succeeded, a refusal of the gate, a logout that removed a handle.
Remembered(m) ==
    \/ m.tool = "login" /\ m.status = "success"
    \/ m.tool = "gate" /\ m.refused
    \/ m.tool = "logout" /\ m.status = "success"

\* The same, remembering what the watched session's request was.
ReturnWatched(s) ==
    /\ Forget(s)
    /\ prev' = IF s # Watched THEN prev
               ELSE IF Remembered(Summary(s)) THEN Summary(s) ELSE NoPrev

\* The process environment changes, one variable at a time (os.environ is
\* written key by key).
SetEnv ==
    /\ \E e \in EnvConfigs :
         /\ e # env
         /\ (e.identifier = env.identifier \/ e.password = env.password)
         /\ env' = e
    /\ UNCHANGED <<clients, pc, tool, cred, local, entry, loginLog,
                   envReads, runs, opLog, used, ret, result, prev>>
    /\ UNCHANGED <<alive, urlCall, deleteCall, pageVars>>

\* The body of a paginated tool (get_follows) called for a session that holds
\* a handle: build the params, make the remote call, return the envelope.
PaginatedCall ==
    /\ ppc = "called"
    /\ IF LimitRaises(limitArg)
       THEN /\ params' = NoParams
            /\ pageResult' = PageEnvelope("TypeError")
       ELSE /\ params' = BuildParams(limitArg, cursorArg)
            /\ \E o \in OpOutcomes : pageResult' = PageEnvelope(o)
    /\ ppc' = "returned"
    /\ UNCHANGED <<limitArg, cursorArg>>
    /\ UNCHANGED authVars

\* The caller asks for another page with arguments of its choice.
NextPage ==
    /\ ppc = "returned"
    /\ ppc' = "called"
    /\ limitArg' \in LimitArgs
    /\ cursorArg' \in CursorArgs
    /\ params' = NoParams
    /\ pageResult' = NoResult
    /\ UNCHANGED authVars

\* The dispatcher session ends between two of its requests.
SessionEnd(s) ==
    /\ alive[s]
    /\ pc[s] = "idle"
    /\ alive' = [alive EXCEPT ![s] = FALSE]
    /\ clients' = RegistryAfterSessionEnd(clients, s)
    /\ UNCHANGED <<env, pc, tool, cred, local, entry, loginLog, envReads, runs,
                   opLog, used, ret, result, prev, urlCall, deleteCall>>
    /\ UNCHANGED pageVars

Next ==
    \/ \E s \in Sessions : LoginTool(s)
    \/ \E s \in Sessions : GateCall(s)
    \/ \E s \in Sessions : ClientLogin(s)
    \/ \E s \in Sessions : RunOp(s)
    \/ \E s \in Sessions : LogoutTool(s)
    \/ \E s \in Sessions : Return(s)
    \/ SetEnv

Spec == Init /\ [][Next]_vars

\* The same tools with the watched session's previous request remembered, in
\* a process whose environment is whatever it was at the start (any of
\* EnvConfigs).
NextSeq ==
    \/ \E s \in Sessions : LoginTool(s)
    \/ \E s \in Sessions : GateCall(s)
    \/ \E s \in Sessions : ClientLogin(s)
    \/ \E s \in Sessions : RunOp(s)
    \/ \E s \in Sessions : LogoutTool(s)
    \/ \E s \in Sessions : ReturnWatched(s)

SpecSeq == Init /\ [][NextSeq]_vars

\* The protected tools of src/server.py behind the lazy gate, the watched
\* session's previous request remembered, while the environment changes
\* between and during requests.
NextEnv ==
    \/ \E s \in Sessions : GateCall(s)
    \/ \E s \in Sessions : ClientLogin(s)
    \/ \E s \in Sessions : RunOp(s)
    \/ \E s \in Sessions : ReturnWatched(s)
    \/ SetEnv

SpecEnv == Init /\ [][NextEnv]_vars

\* Every tool of the server: the ones above, the status check, the tool that
\* needs no authentication and a protected tool behind the strict gate.  The
\* process environment is whatever it was when the server started (any of
\* EnvConfigs) and stays so.
NextTools ==
    \/ \E s \in Sessions : LoginTool(s)
    \/ \E s \in Sessions : GateCall(s)
    \/ \E s \in Sessions : StrictGateCall(s)
    \/ \E s \in Sessions : ClientLogin(s)
    \/ \E s \in Sessions : RunOp(s)
    \/ \E s \in Sessions : LogoutTool(s)
    \/ \E s \in Sessions : StatusTool(s)
    \/ \E s \in Sessions : ResolveTool(s)
    \/ \E s \in Sessions : Return(s)

SpecTools == Init /\ [][NextTools]_vars

\* The tools of src/server.py (it has no login and no logout tool), with each
\* remote call answered sooner or later: client.login and the proxied call
\* either return or raise.  The other tools make their remote call inside
\* their one step.
NextServer ==
    \/ \E s \in Sessions : GateCall(s)
    \/ \E s \in Sessions : ClientLogin(s)
    \/ \E s \in Sessions : RunOp(s)
    \/ \E s \in Sessions : StatusTool(s)
    \/ \E s \in Sessions : ResolveTool(s)
    \/ \E s \in Sessions : Return(s)

SpecFair ==
    /\ Init
    /\ [][NextServer]_vars
    /\ \A s \in Sessions : WF_vars(ClientLogin(s)) /\ WF_vars(RunOp(s))

\* The login tool and the lazy gate called with a context whose notification
\* may raise.
NextNotify ==
    \/ \E s \in Sessions : LoginTool(s)
    \/ \E s \in Sessions : GateCall(s)
    \/ \E s \in Sessions : ClientLogin(s)
    \/ \E s \in Sessions : ClientLoginNotifyFails(s)
    \/ \E s \in Sessions : RunOp(s)
    \/ \E s \in Sessions : LogoutTool(s)
    \/ \E s \in Sessions : Return(s)

SpecNotify == Init /\ [][NextNotify]_vars

\* The tools of src/bluesky_mcp_server/server.py: login, logout, the status
\* check and the protected tools, which are behind the strict check.  Nothing
\* here reads the environment for credentials.
NextPackage ==
    \/ \E s \in Sessions : LoginTool(s)
    \/ \E s \in Sessions : ClientLogin(s)
    \/ \E s \in Sessions : LogoutTool(s)
    \/ \E s \in Sessions : StatusTool(s)
    \/ \E s \in Sessions : StrictGateCall(s)
    \/ \E s \in Sessions : RunOp(s)
    \/ \E s \in Sessions : Return(s)

SpecPackage == Init /\ [][NextPackage]_vars

\* The lazy gate of src/server.py in front of delete_post and get_follows.
NextDelete ==
    \/ \E s \in Sessions : GateCall(s)
    \/ \E s \in Sessions : ClientLogin(s)
    \/ \E s \in Sessions : DeletePost(s)
    \/ \E s \in Sessions : RunOp(s)
    \/ \E s \in Sessions : Return(s)

SpecDelete == Init /\ [][NextDelete]_vars

\* Sessions that log in, log out and end; an ended session sends no request.
NextLife ==
    \/ \E s \in Sessions : alive[s] /\ LoginTool(s)
    \/ \E s \in Sessions : alive[s] /\ GateCall(s)
    \/ \E s \in Sessions : ClientLogin(s)
    \/ \E s \in Sessions : RunOp(s)
    \/ \E s \in Sessions : alive[s] /\ LogoutTool(s)
    \/ \E s \in Sessions : Return(s)
    \/ \E s \in Sessions : SessionEnd(s)

SpecLife == Init /\ [][NextLife]_vars

\* One session that logs in and out and calls the two tools that need no
\* authentication, with every URL.
NextUrl ==
    \/ LoginTool(Watched)
    \/ ClientLogin(Watched)
    \/ LogoutTool(Watched)
    \/ ResolveTool(Watched)
    \/ ConvertTool(Watched)
    \/ Return(Watched)

SpecUrl == Init /\ [][NextUrl]_vars

\* Calls of a paginated tool with every limit and cursor argument.
InitParams ==
    /\ AuthInit
    /\ ppc = "called"
    /\ limitArg \in LimitArgs
    /\ cursorArg \in CursorArgs
    /\ params = NoParams
    /\ pageResult = NoResult

NextParams ==
    \/ PaginatedCall
    \/ NextPage

SpecParams == InitParams /\ [][NextParams]_vars

(***************************************************************************)
(* Properties                                                              *)
(***************************************************************************)

\* C1: for distinct sessions a and b, no step of an authentication performed
\* for a (explicit login or lazy gate, succeeding or failing) turns b from
\* unauthenticated to authenticated.
C1_AuthOfOneNeverAuthenticatesOther ==
    [][\A a, b \in Sessions :
         (a # b /\ pc'[a] # pc[a] /\ tool'[a] \in {"login", "gate"}
              /\ clients[b] = NoClient)
         => clients'[b] = NoClient]_vars

C1_Witness ==
    \E a, b \in Sessions :
        /\ a # b
        /\ pc[a] = "done" /\ tool[a] \in {"login", "gate"}
        /\ loginLog[a] = <<"ok">> /\ clients[a] # NoClient
        /\ clients[b] = NoClient

\* C2: logout of a session without a handle returns False, the tool answers
\* with an error envelope and the registry is unchanged; logout of a session
\* with a handle returns True, the tool answers with a success envelope, the
\* handle is removed and the session is unauthenticated right after.
C2_Logout ==
    [][\A s \in Sessions :
         (pc[s] = "idle" /\ tool'[s] = "logout")
         => IF clients[s] = NoClient
            THEN /\ ret'[s].success = FALSE
                 /\ result'[s].status = "error"
                 /\ clients' = clients
            ELSE /\ ret'[s].success = TRUE
                 /\ result'[s].status = "success"
                 /\ clients'[s] = NoClient
                 /\ \A b \in Sessions \ {s} : clients'[b] = clients[b]]_vars

C2_Witness ==
    \E s \in Sessions :
        /\ pc[s] = "done" /\ tool[s] = "logout"
        /\ entry[s] # NoClient /\ clients[s] = NoClient
        /\ ret[s].success

\* C3: a protected tool called through the lazy gate for a session without a
\* handle, with the identifier or the password variable unset or empty, is
\* refused with the "not set" message; the tool is not invoked, no client is
\* constructed, no remote login is made and the session stays unauthenticated.
C3_MissingCredentialsRefused ==
    [][\A s \in Sessions :
         (/\ pc[s] = "idle" /\ tool'[s] = "gate"
          /\ clients[s] = NoClient
          /\ (env.identifier \in {Unset, ""} \/ env.password \in {Unset, ""}))
         => /\ pc'[s] = "done"
            /\ result'[s].status = "error"
            /\ result'[s].message = <<"Authentication required. ">> \o MsgEnvNotSet
            /\ runs'[s] = 0
            /\ loginLog'[s] = <<>>
            /\ local'[s] = NoClient
            /\ clients'[s] = NoClient]_vars

C3_Witness ==
    \E s \in Sessions :
        /\ pc[s] = "done" /\ tool[s] = "gate"
        /\ envReads[s] = 1 /\ loginLog[s] = <<>> /\ runs[s] = 0
        /\ result[s].message = <<"Authentication required. ">> \o MsgEnvNotSet

\* C4: a lazy-gate call of a session without a handle whose remote login is
\* rejected ends with an error envelope carrying the authentication-failure
\* message, without the tool having run, and the session is unauthenticated.
C4_RejectedLoginRefused ==
    \A s \in Sessions :
        (/\ tool[s] = "gate" /\ entry[s] = NoClient
         /\ loginLog[s] # <<>> /\ loginLog[s][Len(loginLog[s])] = "rejected")
        => /\ pc[s] = "done"
           /\ result[s].status = "error"
           /\ result[s].message = <<"Authentication required. ",
                                    "Authentication failed: ",
                                    "Invalid identifier or password">>
           /\ runs[s] = 0
           /\ clients[s] = NoClient

C4_Witness ==
    \E s \in Sessions :
        /\ pc[s] = "done" /\ tool[s] = "gate" /\ entry[s] = NoClient
        /\ loginLog[s] = <<"rejected">>
        /\ cred[s] = <<"alice.test", "stale-pw">>

\* C5: the protected tool a session calls right after its explicit login
\* succeeded runs and returns its own envelope, and the remote login calls of
\* the two requests together are exactly one.
C5_NoSecondLoginAfterExplicitLogin ==
    (tool[Watched] = "gate" /\ prev.tool = "login" /\ prev.status = "success")
    => /\ prev.logins + Len(loginLog[Watched]) = 1
       /\ envReads[Watched] = 0
       /\ pc[Watched] \in {"op", "done"}
       /\ pc[Watched] = "done"
            => /\ runs[Watched] = 1
               /\ result[Watched].message[1] \in {"follows", "Failed to get follows: "}

C5_Witness ==
    /\ pc[Watched] = "done" /\ tool[Watched] = "gate"
    /\ prev.tool = "login" /\ prev.status = "success"
    /\ result[Watched].status = "success"

\* C6: a lazy-gate call of a session without a handle reads the environment
\* once and makes at most one remote login; when the login succeeded the
\* handle is in the registry before the tool runs and the tool runs exactly
\* once; when the cycle failed the tool does not run.
C6_OneLazyCycle ==
    \A s \in Sessions :
        (tool[s] = "gate" /\ entry[s] = NoClient)
        => /\ envReads[s] = 1
           /\ Len(loginLog[s]) <= 1
           /\ pc[s] = "auth" => (loginLog[s] = <<>> /\ runs[s] = 0)
           /\ pc[s] = "op" => /\ loginLog[s] = <<"ok">>
                              /\ runs[s] = 0
                              /\ clients[s] # NoClient
                              /\ clients[s] = local[s]
           /\ pc[s] = "done" => IF loginLog[s] = <<"ok">>
                                THEN runs[s] = 1 /\ clients[s] = local[s]
                                ELSE /\ runs[s] = 0
                                     /\ result[s].status = "error"
                                     /\ clients[s] = NoClient

C6_Witness ==
    \E s \in Sessions :
        /\ tool[s] = "gate" /\ entry[s] = NoClient /\ pc[s] = "done"
        /\ loginLog[s] = <<"ok">> /\ runs[s] = 1

\* C7: whatever the interleaving of the sessions' requests, the client a
\* lookup returns for a session finished its remote login and was constructed
\* and stored by that session.
C7_LookupReturnsOwnLoggedInClient ==
    \A s \in Sessions :
        LET c == GetClient(clients, s) IN
        c # NoClient => /\ c.logged
                        /\ c.owner = s
                        /\ \A t \in Sessions : pc[t] = "auth" => c # local[t]

C7_Witness ==
    \E a, b \in Sessions :
        /\ a # b
        /\ pc[a] = "auth" /\ ~local[a].logged
        /\ pc[b] = "op" /\ clients[b] # NoClient

\* C8: a lazy-gate call entered with a handle present constructs no client,
\* makes no login and leaves the session's handle the same object.
C8_GateKeepsExistingHandle ==
    \A s \in Sessions :
        (tool[s] = "gate" /\ entry[s] # NoClient)
        => /\ clients[s] = entry[s]
           /\ local[s] = NoClient
           /\ loginLog[s] = <<>>
           /\ envReads[s] = 0
           /\ pc[s] \in {"op", "done"}

C8_Witness ==
    \E s \in Sessions :
        /\ tool[s] = "gate" /\ entry[s] # NoClient /\ pc[s] = "done"
        /\ runs[s] = 1

\* C9: an explicit authenticate whose remote login succeeded returned
\* (True, None); the session's registry entry is the client that call
\* constructed, not the handle held before, and the session is authenticated.
C9_ExplicitLoginOverwrites ==
    \A s \in Sessions :
        (/\ tool[s] = "login" /\ pc[s] = "done"
         /\ loginLog[s] # <<>> /\ loginLog[s][Len(loginLog[s])] = "ok")
        => /\ ret[s] = [success |-> TRUE, error |-> PyNone]
           /\ clients[s] # NoClient
           /\ clients[s] = local[s]
           /\ clients[s].logged
           /\ <<clients[s].owner, clients[s].id>> # <<entry[s].owner, entry[s].id>>

C9_Witness ==
    \E s \in Sessions :
        /\ tool[s] = "login" /\ pc[s] = "done" /\ loginLog[s] = <<"ok">>
        /\ entry[s] # NoClient /\ clients[s] # entry[s]

\* C10: a call of authenticate makes exactly one remote login call; when that
\* call failed authenticate returned False with "Authentication failed: "
\* followed by the upstream message.
C10_OneLoginCallFailureWrapped ==
    \A s \in Sessions :
        local[s] # NoClient
        => /\ pc[s] = "auth" => loginLog[s] = <<>>
           /\ pc[s] \in {"op", "done"}
                => /\ Len(loginLog[s]) = 1
                   /\ loginLog[s][1] # "ok"
                        => ret[s] = [success |-> FALSE,
                                     error |-> <<"Authentication failed: ",
                                                 UpstreamMessage(loginLog[s][1])>>]

C10_Witness ==
    \E s \in Sessions :
        /\ pc[s] = "done" /\ tool[s] = "login"
        /\ loginLog[s] = <<"transport">>
        /\ ret[s].error = <<"Authentication failed: ", "Connection error">>

\* C11: a session is either unauthenticated (no registry entry) or
\* authenticated (one entry, a logged-in client).  A step takes a session from
\* unauthenticated to authenticated only when it is the return of a successful
\* remote login of that session's explicit login or lazy gate, and from
\* authenticated to unauthenticated only when it is that session's logout.
C11_TwoStatesTwoTransitions ==
    [][\A s \in Sessions :
         /\ (clients[s] = NoClient /\ clients'[s] # NoClient)
              => /\ pc[s] = "auth" /\ tool[s] \in {"login", "gate"}
                 /\ loginLog'[s] = Append(loginLog[s], "ok")
                 /\ clients'[s].logged
                 /\ clients'[s].ident = cred[s][1]
         /\ (clients[s] # NoClient /\ clients'[s] = NoClient)
              => /\ pc[s] = "idle" /\ tool'[s] = "logout"
                 /\ pc'[s] = "done"
         /\ clients'[s] # NoClient => clients'[s].logged]_vars

C11_Witness ==
    \E a, b \in Sessions :
        /\ a # b
        /\ pc[a] = "done" /\ tool[a] = "gate" /\ entry[a] = NoClient
        /\ clients[a] # NoClient
        /\ pc[b] = "done" /\ tool[b] = "logout" /\ entry[b] # NoClient
        /\ clients[b] = NoClient

\* C12: no client object is stored under two session keys: the handles of two
\* distinct authenticated sessions are different objects, also when both
\* sessions logged in with the same credentials.
C12_NoSharedHandle ==
    \A a, b \in Sessions :
        (a # b /\ clients[a] # NoClient /\ clients[b] # NoClient)
        => <<clients[a].owner, clients[a].id>> # <<clients[b].owner, clients[b].id>>

C12_Witness ==
    \E a, b \in Sessions :
        /\ a # b
        /\ clients[a] # NoClient /\ clients[b] # NoClient
        /\ clients[a].ident = clients[b].ident
        /\ clients[a].id = clients[b].id

\* C13: when the proxied remote call of a protected tool fails for a session
\* that holds a handle, the tool answers with an error envelope and the
\* session's handle is still in the registry, the same object as before the
\* call.
C13_UpstreamFailureKeepsHandle ==
    \A s \in Sessions :
        (opLog[s] # <<>> /\ opLog[s][Len(opLog[s])] = "upstream")
        => /\ pc[s] = "done"
           /\ result[s].status = "error"
           /\ result[s].message[1] = "Failed to get follows: "
           /\ clients[s] # NoClient
           /\ clients[s] = (IF entry[s] # NoClient THEN entry[s] ELSE local[s])

C13_Witness ==
    \E s \in Sessions :
        /\ pc[s] = "done" /\ opLog[s] = <<"upstream">>
        /\ entry[s] # NoClient /\ clients[s] = entry[s]
        /\ result[s].status = "error"

C15_NoFailureEscapes ==
    \A s \in Sessions :
        /\ pc[s] # "raised"
        /\ (loginLog[s] # <<>> /\ loginLog[s][Len(loginLog[s])] # "ok")
             => (pc[s] = "done" /\ result[s].status = "error")
        /\ (opLog[s] # <<>> /\ opLog[s][Len(opLog[s])] # "ok")
             => (pc[s] = "done" /\ result[s].status = "error")
        /\ (tool[s] = "status" /\ pc[s] # "idle")
             => (pc[s] = "done" /\ result[s] # NoResult)

C15_Witness ==
    \E a, b \in Sessions :
        /\ a # b
        /\ pc[a] = "done" /\ tool[a] = "resolve" /\ entry[a] = NoClient
        /\ opLog[a] = <<"upstream">> /\ result[a].status = "error"
        /\ pc[b] = "done" /\ tool[b] = "gate"
        /\ loginLog[b] = <<"transport">> /\ result[b].status = "error"

\* C16: for an integer limit x the limit the remote call receives is
\* max(1, min(100, x)): it lies in 1..100, equals x when x is in 1..100, is 1
\* for x below 1 (1 for 0) and 100 for x above 100 (100 for 500), is 50 for 50,
\* and clamping it again changes nothing.
C16_ClampOfIntegerLimit ==
    (ppc = "returned" /\ limitArg.kind = "int")
    => /\ "limit" \in DOMAIN params
       /\ LET x == limitArg.n
              y == params.limit
          IN /\ y \in 1..100
             /\ x \in 1..100 => y = x
             /\ x < 1 => y = 1
             /\ x > 100 => y = 100
             /\ x = 0 => y = 1
             /\ x = 500 => y = 100
             /\ x = 50 => y = 50
             /\ Clamp(y) = y
             /\ Clamp(Clamp(x)) = Clamp(x)

C16_Witness ==
    /\ ppc = "returned" /\ limitArg.kind = "int"
    /\ limitArg.n = 0 /\ params.limit = 1

\* C17: a paginated tool given a limit that is a string, numeric or not,
\* clamps it into 1..100 and makes the remote call with it; the request is not
\* answered with an error because of the limit's form.
C17_StringLimitClampedAndSent ==
    (ppc = "returned" /\ limitArg.kind = "str")
    => /\ "limit" \in DOMAIN params
       /\ params.limit \in 1..100
       /\ pageResult.message # <<"Failed to get follows: ", "TypeError">>

\* C18: the params of the remote call have a cursor key exactly when the
\* caller gave a cursor that is neither None nor the empty string, and the
\* value under the key is the caller's cursor unchanged.
C18_CursorPassedWhenNonEmpty ==
    (ppc = "returned" /\ "limit" \in DOMAIN params)
    => /\ ("cursor" \in DOMAIN params) <=> (cursorArg # Unset /\ cursorArg # "")
       /\ ("cursor" \in DOMAIN params) => params.cursor = cursorArg

C18_Witness ==
    /\ ppc = "returned" /\ "limit" \in DOMAIN params
    /\ cursorArg = "" /\ "cursor" \notin DOMAIN params

\* C19: the status check and the strict gate's lookup report a session as
\* authenticated exactly when the registry holds a handle under its key; they
\* leave the whole registry as it was, construct no client and make no remote
\* login, also when the environment holds usable credentials.
C19_LookupsLeaveRegistry ==
    [][\A s \in Sessions :
         /\ (pc[s] = "idle" /\ tool'[s] = "status")
              => /\ clients' = clients
                 /\ pc'[s] = "done"
                 /\ local'[s] = NoClient
                 /\ loginLog'[s] = <<>>
                 /\ (result'[s].status = "authenticated") <=> (clients[s] # NoClient)
                 /\ (result'[s].status = "not_authenticated") <=> (clients[s] = NoClient)
         /\ (pc[s] = "idle" /\ tool'[s] = "strict")
              => /\ clients' = clients
                 /\ local'[s] = NoClient
                 /\ loginLog'[s] = <<>>
                 /\ (pc'[s] = "op") <=> (clients[s] # NoClient)]_vars

C19_Witness ==
    \E s \in Sessions :
        /\ pc[s] = "done" /\ tool[s] = "status"
        /\ env = [identifier |-> "alice.test", password |-> "alice-pw"]
        /\ entry[s] = NoClient /\ clients[s] = NoClient
        /\ result[s].status = "not_authenticated"

\* C20: the message strings returned for three causes of failure differ from
\* one another: credentials not configured in the environment (the lazy
\* gate's refusal without a login attempt), credentials rejected by the remote
\* login (the lazy gate's refusal or the login tool's error after a rejected
\* login), and no handle with no fallback (the strict gate's refusal).
C20_FailureMessagesDiffer ==
    \A a, b \in Sessions :
        LET cause(s) ==
                IF pc[s] # "done" THEN "none"
                ELSE IF tool[s] = "gate" /\ runs[s] = 0 /\ loginLog[s] = <<>>
                     THEN "not configured"
                ELSE IF tool[s] \in {"gate", "login"} /\ loginLog[s] = <<"rejected">>
                     THEN "rejected"
                ELSE IF tool[s] = "strict" /\ entry[s] = NoClient
                     THEN "not authenticated"
                ELSE "none"
        IN  /\ cause(a) # "none" => Text(result[a].message) # ""
            /\ (cause(a) # "none" /\ cause(b) # "none" /\ cause(a) # cause(b))
                 => Text(result[a].message) # Text(result[b].message)

C20_Witness ==
    \E a, b \in Sessions :
        /\ pc[a] = "done" /\ tool[a] = "gate" /\ loginLog[a] = <<"rejected">>
        /\ Text(result[a].message) =
             "Authentication required. Authentication failed: Invalid identifier or password"
        /\ pc[b] = "done" /\ tool[b] = "strict" /\ entry[b] = NoClient
        /\ Text(result[b].message) = "Authentication required"

\* C21: the lazy gate keeps no memory of a refusal.  The protected call a
\* session makes right after one that the gate refused (credentials missing,
\* or the login failed) reads the environment again; when it finds the
\* credentials the remote accepts and the login call is answered, the session
\* is authenticated as the environment's identity and the tool runs once.
C21_EnvironmentReadAnew ==
    (/\ tool[Watched] = "gate" /\ prev.tool = "gate" /\ prev.refused
     /\ entry[Watched] = NoClient)
    => /\ envReads[Watched] = 1
       /\ (cred[Watched] = <<"alice.test", "alice-pw">>
             /\ pc[Watched] \in {"op", "done"}
             /\ loginLog[Watched] # <<"transport">>)
            => /\ loginLog[Watched] = <<"ok">>
               /\ clients[Watched] # NoClient
               /\ clients[Watched].ident = "alice.test"
               /\ pc[Watched] = "done"
                    => /\ runs[Watched] = 1
                       /\ result[Watched].message[1] \in
                              {"follows", "Failed to get follows: "}

C21_Witness ==
    /\ tool[Watched] = "gate" /\ prev.tool = "gate" /\ prev.refused
    /\ prev.logins = 1
    /\ pc[Watched] = "done" /\ loginLog[Watched] = <<"ok">>
    /\ runs[Watched] = 1 /\ result[Watched].status = "success"

\* C22: no registry entry remains for a session that has ended: when the
\* dispatcher session of a key ends, the handle stored under the key is
\* dropped.
C22_EndedSessionHasNoEntry ==
    \A s \in Sessions : ~alive[s] => clients[s] = NoClient

\* C23: resolve_handle and convert_url_to_uri called by a session without a
\* handle make their call on a client constructed for that call, which is not
\* logged in and is in no registry entry; no login is made, the session is
\* still unauthenticated, and the call succeeds when the resolution is
\* answered.  Called by a session with a handle they make their call on that
\* handle and construct no client.
C23_TemporaryClientNeverStored ==
    \A s \in Sessions :
        (pc[s] = "done" /\ tool[s] \in {"resolve", "convert"} /\ opLog[s] # <<>>)
        => /\ clients[s] = entry[s]
           /\ loginLog[s] = <<>>
           /\ local[s] = NoClient
           /\ used[s] # NoClient
           /\ IF entry[s] = NoClient
              THEN /\ ~used[s].logged
                   /\ \A t \in Sessions : clients[t] # used[s]
                   /\ opLog[s] = <<"ok">> => result[s].status = "success"
              ELSE /\ used[s] = entry[s]
                   /\ <<used[s].owner, used[s].id>> = <<clients[s].owner, clients[s].id>>

C23_Witness ==
    \E s \in Sessions :
        /\ pc[s] = "done" /\ tool[s] = "convert" /\ entry[s] = NoClient
        /\ opLog[s] = <<"ok">> /\ result[s].status = "success"
        /\ used[s] # NoClient /\ clients[s] = NoClient

\* C24: convert_url_to_uri answers a URL that is neither
\* http(s)://[www.]bsky.app/profile/<handle>/post/<id>... nor
\* http(s)://[www.]bsky.app/profile/<handle>... with the error "Unsupported URL
\* format", without asking the manager and without a remote call; for a post
\* URL whose handle was resolved it returns
\* at://<DID>/app.bsky.feed.post/<id>, for any other profile URL the DID.
C24_ConvertUrl ==
    \A s \in Sessions :
        (pc[s] = "done" /\ tool[s] = "convert")
        => LET u == urlCall.url
               origin == u.scheme \in {"http", "https"}
                            /\ u.host \in {"bsky.app", "www.bsky.app"}
               profile == /\ origin /\ Len(u.segs) >= 2
                          /\ u.segs[1] = "profile" /\ u.segs[2] # ""
               post == /\ profile /\ Len(u.segs) >= 4
                       /\ u.segs[3] = "post" /\ u.segs[4] # ""
           IN  /\ ~profile
                    => /\ result[s] = [status |-> "error",
                                       message |-> <<"Unsupported URL format">>]
                       /\ ~urlCall.consulted
                       /\ opLog[s] = <<>>
                       /\ used[s] = NoClient
               /\ (post /\ opLog[s] = <<"ok">>)
                    => /\ result[s].status = "success"
                       /\ Text(result[s].message) =
                            "at://did:plc:" \o u.segs[2]
                                \o "/app.bsky.feed.post/" \o u.segs[4]
               /\ (profile /\ ~post /\ opLog[s] = <<"ok">>)
                    => /\ result[s].status = "success"
                       /\ Text(result[s].message) = "did:plc:" \o u.segs[2]

C24_Witness ==
    \E s \in Sessions :
        /\ pc[s] = "done" /\ tool[s] = "convert"
        /\ urlCall.url = [scheme |-> "https", host |-> "bsky.app",
                          segs |-> <<"profile", "alice.test", "post", "3kabc">>]
        /\ Text(result[s].message) = "at://did:plc:alice.test/app.bsky.feed.post/3kabc"

\* C25: every request of every tool comes to its end with one envelope,
\* given that each remote call it waits for returns or raises: a request that
\* was started is eventually finished and has returned an envelope.
C25_EveryRequestReturns ==
    \A s \in Sessions :
        (pc[s] # "idle") ~> (pc[s] = "done" /\ result[s] # NoResult)

C25_Witness ==
    \E s \in Sessions :
        /\ pc[s] = "done" /\ tool[s] = "gate" /\ entry[s] = NoClient
        /\ Len(loginLog[s]) = 1 /\ Len(opLog[s]) = 1
        /\ result[s] # NoResult

C27_StrictGateRefuses ==
    [][\A s \in Sessions :
         /\ (pc[s] = "idle" /\ tool'[s] = "strict" /\ clients[s] = NoClient)
              => /\ pc'[s] = "done"
                 /\ result'[s].status = "error"
                 /\ Text(result'[s].message) = "Authentication required"
                 /\ runs'[s] = 0 /\ opLog'[s] = <<>> /\ used'[s] = NoClient
                 /\ envReads'[s] = 0
                 /\ loginLog'[s] = <<>> /\ local'[s] = NoClient
                 /\ clients' = clients
         /\ (clients[s] = NoClient /\ clients'[s] # NoClient)
              => /\ tool[s] = "login" /\ pc[s] = "auth"
                 /\ loginLog'[s] = <<"ok">>]_vars

C27_Witness ==
    \E s, u \in Sessions :
        /\ pc[s] = "done" /\ tool[s] = "strict" /\ entry[s] = NoClient
        /\ clients[s] = NoClient
        /\ env = [identifier |-> "alice.test", password |-> "alice-pw"]
        /\ u # s /\ clients[u] # NoClient

\* C28: a step of a request of session A (an authenticate that succeeds or
\* fails, the lazy or the strict gate, a logout, a proxied call, a status
\* check, a lookup by a tool that needs no authentication) never adds,
\* replaces or removes the registry entry of another session B; each step
\* belongs to one session, and a logout of A leaves B logged in.
C28_StepsTouchOwnEntryOnly ==
    [][\A a, b \in Sessions :
         (a # b /\ pc'[a] # pc[a])
             => /\ clients'[b] = clients[b]
                /\ pc'[b] = pc[b]
                /\ clients'[a] # clients[a]
                     => \/ (tool[a] \in {"login", "gate"} /\ pc[a] = "auth")
                        \/ (tool'[a] = "logout" /\ pc[a] = "idle")]_vars

C28_Witness ==
    \E a, b \in Sessions :
        /\ a # b
        /\ pc[a] = "done" /\ tool[a] = "logout"
        /\ entry[a] # NoClient /\ clients[a] = NoClient
        /\ result[a].status = "success"
        /\ clients[b] # NoClient /\ pc[b] = "op"

\* C29: a logout does not stay in force under the lazy gate.  The protected
\* call a session makes right after a logout that removed its handle finds no
\* entry and reads the environment; when the credentials there are the ones
\* the remote accepts and the login call is answered, the session is
\* authenticated again, as the environment's identity whatever identity it
\* had logged in with before, and the tool runs once.
C29_LogoutNotSticky ==
    (/\ tool[Watched] = "gate" /\ prev.tool = "logout"
     /\ prev.status = "success")
    => /\ entry[Watched] = NoClient
       /\ prev.ident # "none"
       /\ envReads[Watched] = 1
       /\ (cred[Watched] = <<"alice.test", "alice-pw">>
             /\ pc[Watched] \in {"op", "done"}
             /\ loginLog[Watched] # <<"transport">>)
            => /\ loginLog[Watched] = <<"ok">>
               /\ clients[Watched] # NoClient
               /\ clients[Watched].ident = "alice.test"
               /\ env.identifier = "alice.test"
               /\ pc[Watched] = "done"
                    => /\ runs[Watched] = 1
                       /\ result[Watched].status \in {"success", "error"}
                       /\ Len(opLog[Watched]) = 1

C29_Witness ==
    /\ tool[Watched] = "gate" /\ prev.tool = "logout"
    /\ prev.status = "success" /\ prev.ident = "bob.test"
    /\ pc[Watched] = "done" /\ loginLog[Watched] = <<"ok">>
    /\ clients[Watched] # NoClient /\ clients[Watched].ident = "alice.test"
    /\ runs[Watched] = 1 /\ result[Watched].status = "success"

\* C30: delete_post never issues the remote delete for a post URI whose DID
\* differs from the DID of the session's client: it returns the error envelope
\* "You can only delete your own posts" and makes no remote call.
C30_ForeignPostRefused ==
    \A s \in Sessions :
        (/\ deleteCall[s].called /\ deleteCall[s].uri # MalformedUri
         /\ deleteCall[s].uri.host # deleteCall[s].me)
        => /\ ~deleteCall[s].remote
           /\ opLog[s] = <<>>
           /\ result[s].status = "error"
           /\ Text(result[s].message) = "You can only delete your own posts"

\* The part of C30 that holds whatever the library's AtUri offers: no remote
\* delete is issued for a URI whose authority is not the session's DID.
C30_NoRemoteDeleteOfForeignPost ==
    \A s \in Sessions :
        (deleteCall[s].called /\ deleteCall[s].uri.host # deleteCall[s].me)
        => /\ ~deleteCall[s].remote
           /\ opLog[s] = <<>>
           /\ result[s].status = "error"

C30_RemoteDeleteReached ==
    \E s \in Sessions :
        /\ deleteCall[s].called /\ deleteCall[s].remote
        /\ deleteCall[s].uri.host = "did:plc:alice.test"
        /\ result[s].status = "success"

=============================================================================
